---- MODULE Spec2Model ----
(***************************************************************************)
(* instantFSM: the execution engine of ifsm::StateMachine.                 *)
(*                                                                         *)
(* The state is the machine's own fields (mIsActive, mInToplevelProcess,   *)
(* mEvents, every StateImpl's mActive) plus the C++ call stack: the host   *)
(* calls enter(), leave() and pushEvent(); the engine calls user callbacks *)
(* (on_entry, on_exit, transition actions) which may call the same three   *)
(* operations again, or throw.                                             *)
(***************************************************************************)
EXTENDS Integers, Sequences, FiniteSets, TLC

VARIABLES
  topo,                \* which descriptor the machine was constructed from
  impl,                \* the StateImpl objects the constructor built
  mIsActive,           \* StateMachine::mIsActive
  mInToplevelProcess,  \* StateMachine::mInToplevelProcess
  mEvents,             \* StateMachine::mEvents (front is the head)
  mActive,             \* StateImpl::mActive of every state
  stack,               \* the C++ call stack of engine frames, innermost last
  condValue,           \* what the user's Condition functions return
  cbOps,               \* API calls made from callbacks since the host's call
  ms,                  \* record of the microstep in progress / last run
  ret,                 \* the API call that returned or threw in the last step
  cbHistory,           \* the most the callbacks have done since construction:
                       \* "quiet" < "pushed" < "called" (enter or leave) < "threw"
  hist                 \* what the host's latest enter() and leave() invoked,
                       \* and the lifecycle callbacks of every state so far

vars == <<topo, impl, mIsActive, mInToplevelProcess, mEvents, mActive, stack,
          condValue, cbOps, ms, ret, cbHistory, hist>>

nullptr == "nullptr"

\* bounds of the model
MaxQueue == 2
MaxCbOps == 1

\* the event names the host and the callbacks push, per descriptor; a name no
\* transition of the descriptor declares is an unknown event
EventNames ==
  << {"event"}, {"event"}, {"event", "ev2"}, {"event"}, {"event"}, {"event", "ev2"},
     {"event"}, {"event"}, {"event"}, {"event", "ev2"}, {"event", "ev2"},
     {"event", "ev2"} >>

(***************************************************************************)
(* Descriptors: what the host hands to the StateMachine constructor.       *)
(* states are in declaration order, each naming its parent.                *)
(***************************************************************************)
St(name, parent, init, par) ==
  [mName |-> name, parent |-> parent, mIsInitial |-> init, mIsParallel |-> par]

Tr(source, event, target, cond) ==
  [source |-> source, mEvent |-> event, mTarget |-> target, mCondition |-> cond]

\* TEST(instantFSM, CheckTransitionOrder), S1A's transition given a Condition
CheckTransitionOrder ==
  [rootParallel |-> FALSE,
   states |-> << St("S1", "root", TRUE, FALSE),
                 St("S1A", "S1", TRUE, FALSE),
                 St("S2", "root", FALSE, FALSE) >>,
   transitions |-> << Tr("S1", "event", "S2", FALSE),
                      Tr("S1A", "event", "S2", TRUE) >>]

\* TEST(instantFSM, ParallelConflictingTransition)
ParallelConflictingTransition ==
  [rootParallel |-> FALSE,
   states |-> << St("S1", "root", TRUE, TRUE),
                 St("SA", "S1", FALSE, FALSE),
                 St("SB", "S1", FALSE, FALSE),
                 St("S2", "root", FALSE, FALSE),
                 St("S3", "root", FALSE, FALSE) >>,
   transitions |-> << Tr("SA", "event", "S2", FALSE),
                      Tr("SB", "event", "S3", FALSE) >>]

\* TEST(instantFSM, TransitionToParallelChild)
TransitionToParallelChild ==
  [rootParallel |-> FALSE,
   states |-> << St("S1", "root", TRUE, FALSE),
                 St("S2", "root", FALSE, TRUE),
                 St("S2A", "S2", FALSE, FALSE),
                 St("S2B", "S2", FALSE, FALSE) >>,
   transitions |-> << Tr("S1", "event", "S2B", FALSE) >>]

\* two orthogonal regions, each with a transition on "event" whose source and
\* target lie inside the region
ParallelRegions ==
  [rootParallel |-> FALSE,
   states |-> << St("S1", "root", TRUE, TRUE),
                 St("SA", "S1", FALSE, FALSE),
                 St("SA1", "SA", TRUE, FALSE),
                 St("SA2", "SA", FALSE, FALSE),
                 St("SB", "S1", FALSE, FALSE),
                 St("SB1", "SB", TRUE, FALSE),
                 St("SB2", "SB", FALSE, FALSE) >>,
   transitions |-> << Tr("SA1", "event", "SA2", FALSE),
                      Tr("SB1", "event", "SB2", FALSE) >>]

\* the same regions with one transition crossing from region SA to region SB
CrossRegion ==
  [rootParallel |-> FALSE,
   states |-> ParallelRegions.states,
   transitions |-> << Tr("SA1", "event", "SB2", FALSE) >>]

\* TEST(instantFSM, TargetlessTransitions) with a third region S3; on "ev2"
\* a transition with a target is selected between two targetless ones
TargetlessTransitions ==
  [rootParallel |-> TRUE,
   states |-> << St("S1", "root", FALSE, FALSE),
                 St("S2", "root", FALSE, FALSE),
                 St("S2A", "S2", TRUE, FALSE),
                 St("S2B", "S2", FALSE, FALSE),
                 St("S3", "root", FALSE, FALSE) >>,
   transitions |-> << Tr("S1", "event", nullptr, FALSE),
                      Tr("S1", "event", nullptr, FALSE),
                      Tr("S2", "event", nullptr, FALSE),
                      Tr("S2A", "event", nullptr, FALSE),
                      Tr("S2B", "event", nullptr, FALSE),
                      Tr("S1", "ev2", nullptr, FALSE),
                      Tr("S2A", "ev2", "S2B", FALSE),
                      Tr("S3", "ev2", nullptr, FALSE) >>]

\* TransitionToParallelChild with the target one parallel state deeper: S2A,
\* the region of S2 on the path to the target S2A1, is itself parallel
NestedParallel ==
  [rootParallel |-> FALSE,
   states |-> << St("S1", "root", TRUE, FALSE),
                 St("S2", "root", FALSE, TRUE),
                 St("S2A", "S2", FALSE, TRUE),
                 St("S2A1", "S2A", FALSE, FALSE),
                 St("S2A2", "S2A", FALSE, FALSE),
                 St("S2B", "S2", FALSE, FALSE) >>,
   transitions |-> << Tr("S1", "event", "S2A1", FALSE) >>]

\* two compound states, as in TEST(instantFSM, CheckExitOrder), with a
\* transition from the atomic state of the first to the second
CompoundToCompound ==
  [rootParallel |-> FALSE,
   states |-> << St("S1", "root", TRUE, FALSE),
                 St("S1A", "S1", TRUE, FALSE),
                 St("S2", "root", FALSE, FALSE),
                 St("S2A", "S2", TRUE, FALSE) >>,
   transitions |-> << Tr("S1A", "event", "S2", FALSE) >>]

\* TransitionToParallelChild with the parallel state itself as the target
TransitionToParallel ==
  [rootParallel |-> FALSE,
   states |-> << St("S1", "root", TRUE, FALSE),
                 St("S2", "root", FALSE, TRUE),
                 St("S2A", "S2", FALSE, FALSE),
                 St("S2B", "S2", FALSE, FALSE) >>,
   transitions |-> << Tr("S1", "event", "S2", FALSE) >>]

\* transitions that compete: S1 declares two transitions for "event" with
\* the same target, and two for "ev2" of which the second targets a child of
\* the first's target; the parallel state S2 declares, above its two atomic
\* children, a targetless transition and one with a target
CompetingTransitions ==
  [rootParallel |-> FALSE,
   states |-> << St("S1", "root", TRUE, FALSE),
                 St("S2", "root", FALSE, TRUE),
                 St("S2A", "S2", FALSE, FALSE),
                 St("S2B", "S2", FALSE, FALSE) >>,
   transitions |-> << Tr("S1", "event", "S2", FALSE),
                      Tr("S1", "event", "S2", FALSE),
                      Tr("S1", "ev2", "S2", FALSE),
                      Tr("S1", "ev2", "S2A", FALSE),
                      Tr("S2", "event", nullptr, FALSE),
                      Tr("S2", "ev2", "S1", FALSE) >>]

\* transitions along one branch: from S1A to its parent S1, from S1 to its
\* child S1B, and from S1B to itself
AlongTheBranch ==
  [rootParallel |-> FALSE,
   states |-> << St("S1", "root", TRUE, FALSE),
                 St("S1A", "S1", TRUE, FALSE),
                 St("S1B", "S1", FALSE, FALSE) >>,
   transitions |-> << Tr("S1A", "event", "S1", FALSE),
                      Tr("S1", "ev2", "S1B", FALSE),
                      Tr("S1B", "event", "S1B", FALSE) >>]

\* a parallel state whose children have children, entered from outside: by a
\* transition to the parallel state and by one to a state below it
ParallelOfCompounds ==
  [rootParallel |-> FALSE,
   states |-> << St("S1", "root", TRUE, FALSE),
                 St("S2", "root", FALSE, TRUE),
                 St("S2A", "S2", FALSE, FALSE),
                 St("S2A1", "S2A", TRUE, FALSE),
                 St("S2B", "S2", FALSE, FALSE),
                 St("S2B1", "S2B", TRUE, FALSE) >>,
   transitions |-> << Tr("S1", "event", "S2", FALSE),
                      Tr("S1", "ev2", "S2A1", FALSE) >>]

Descriptors ==
  << CheckTransitionOrder, ParallelConflictingTransition,
     TransitionToParallelChild, ParallelRegions, CrossRegion,
     TargetlessTransitions, NestedParallel, CompoundToCompound,
     TransitionToParallel, CompetingTransitions, AlongTheBranch,
     ParallelOfCompounds >>

(***************************************************************************)
(* The built topology (StateMachine constructor, StateImpl::build): the    *)
(* fields of every StateImpl, which no operation changes afterwards.       *)
(***************************************************************************)
Names(d) == {"root"} \cup {d.states[i].mName : i \in 1..Len(d.states)}

\* the names of the children of s, in declaration order
ChildrenOf(d, s) ==
  LET kids == SelectSeq(d.states, LAMBDA c : c.parent = s)
  IN  [i \in 1..Len(kids) |-> kids[i].mName]

\* the child tagged initial (build() accepts exactly one)
InitialOf(d, s) ==
  LET kids == SelectSeq(d.states, LAMBDA c : c.parent = s /\ c.mIsInitial)
  IN  IF kids = <<>> THEN nullptr ELSE kids[1].mName

DefOf(d, s) ==
  IF s = "root" THEN St("root", nullptr, FALSE, d.rootParallel)
  ELSE d.states[CHOOSE i \in 1..Len(d.states) : d.states[i].mName = s]

Build(d) ==
  [mAllStates   |-> Names(d),
   mParent      |-> [s \in Names(d) |-> DefOf(d, s).parent],
   mIsParallel  |-> [s \in Names(d) |-> DefOf(d, s).mIsParallel],
   mChildren    |-> [s \in Names(d) |-> ChildrenOf(d, s)],
   mInitial     |-> [s \in Names(d) |-> InitialOf(d, s)],
   mTransitions |-> d.transitions]

mAllStates == impl.mAllStates

mParent(s) == impl.mParent[s]

mIsParallel(s) == impl.mIsParallel[s]

mChildren(s) == impl.mChildren[s]

mInitial(s) == impl.mInitial[s]

isAtomic(s) == mChildren(s) = <<>>

\* transitions are identified by their index in declaration order
mSource(t) == impl.mTransitions[t].source

mTarget(t) == impl.mTransitions[t].mTarget

\* StateImpl::mTransitions.equal_range(pEvent): a multimap keeps the
\* insertion order of equal keys
equal_range(s, pEvent) ==
  SelectSeq([i \in 1..Len(impl.mTransitions) |-> i],
            LAMBDA t : mSource(t) = s /\ impl.mTransitions[t].mEvent = pEvent)

HasConditions ==
  \E t \in 1..Len(impl.mTransitions) : impl.mTransitions[t].mCondition

\* TransitionImpl::test
\* mutant of test: the Condition is not consulted
test_Unguarded(t) == TRUE

test(t) == IF ~impl.mTransitions[t].mCondition THEN TRUE ELSE condValue

(***************************************************************************)
(* Configuration queries.                                                  *)
(***************************************************************************)
\* mutant of isActive: the children of a parallel state are not active with it
isActive_NoParallel(s) ==
  IF mParent(s) = nullptr THEN mIsActive
  ELSE mActive[mParent(s)] = s

RECURSIVE isActive(_)
isActive(s) ==
  IF mParent(s) = nullptr THEN mIsActive
  ELSE mActive[mParent(s)] = s
         \/ (mIsParallel(mParent(s)) /\ isActive(mParent(s)))

inState(stateName) ==
  IF stateName \notin mAllStates THEN FALSE
  ELSE IF stateName = "root" THEN mIsActive
  ELSE isActive(stateName)

RECURSIVE isDescendant(_, _)
isDescendant(pCheck, pAgainst) ==
  IF pCheck = pAgainst THEN pCheck # nullptr
  ELSE IF pCheck = nullptr THEN FALSE
  ELSE isDescendant(mParent(pCheck), pAgainst)

\* lLhsParents of findLeastCommonAncestor: the parents of pLhs up to and
\* including the nullptr above the root
RECURSIVE ParentsOf(_)
ParentsOf(s) ==
  IF s = nullptr THEN <<>>
  ELSE <<mParent(s)>> \o ParentsOf(mParent(s))

RECURSIVE FirstAncestorOf(_, _)
FirstAncestorOf(lLhsParents, pRhs) ==
  IF lLhsParents = <<>> THEN "root"
  ELSE IF isDescendant(pRhs, Head(lLhsParents)) THEN Head(lLhsParents)
  ELSE FirstAncestorOf(Tail(lLhsParents), pRhs)

findLeastCommonAncestor(pLhs, pRhs) == FirstAncestorOf(ParentsOf(pLhs), pRhs)

Reverse(seq) == [i \in 1..Len(seq) |-> seq[Len(seq) + 1 - i]]

\* DepthFirstSearch over the whole tree from the root: document order
RECURSIVE DepthFirst(_)
DepthFirst(mLifo) ==
  IF mLifo = <<>> THEN <<>>
  ELSE <<Head(mLifo)>> \o DepthFirst(mChildren(Head(mLifo)) \o Tail(mLifo))

(***************************************************************************)
(* Transition selector.                                                    *)
(***************************************************************************)
\* mutant of WalkUp: the walk goes on to the root past the first match
RECURSIVE WalkUp_AllLevels(_, _)
WalkUp_AllLevels(lState, pEvent) ==
  IF lState = nullptr THEN <<>>
  ELSE SelectSeq(equal_range(lState, pEvent), test)
         \o WalkUp_AllLevels(mParent(lState), pEvent)

\* mutant of WalkUp: only the first transition whose test() succeeds is taken
RECURSIVE WalkUp_FirstOnly(_, _)
WalkUp_FirstOnly(lState, pEvent) ==
  IF lState = nullptr THEN <<>>
  ELSE LET lMatch == SelectSeq(equal_range(lState, pEvent), test)
       IN  IF lMatch # <<>> THEN <<Head(lMatch)>>
           ELSE WalkUp_FirstOnly(mParent(lState), pEvent)

\* the walk from one active atomic state towards the root: every transition
\* of the first state that has one for pEvent whose test() succeeds
RECURSIVE WalkUp(_, _)
WalkUp(lState, pEvent) ==
  IF lState = nullptr THEN <<>>
  ELSE LET lMatch == SelectSeq(equal_range(lState, pEvent), test)
       IN  IF lMatch # <<>> THEN lMatch
           ELSE WalkUp(mParent(lState), pEvent)

\* mutant of WalkAll: the atomic states are served last to first
RECURSIVE WalkAll_LastFirst(_, _)
WalkAll_LastFirst(lAtomics, pEvent) ==
  IF lAtomics = <<>> THEN <<>>
  ELSE WalkAll_LastFirst(Tail(lAtomics), pEvent) \o WalkUp(Head(lAtomics), pEvent)

RECURSIVE WalkAll(_, _)
WalkAll(lAtomics, pEvent) ==
  IF lAtomics = <<>> THEN <<>>
  ELSE WalkUp(Head(lAtomics), pEvent) \o WalkAll(Tail(lAtomics), pEvent)

\* mutant of ActiveAtomics: every atomic state, active or not
ActiveAtomics_AllAtomics ==
  SelectSeq(DepthFirst(<<"root">>), LAMBDA s : isAtomic(s))

\* the first loop of selectTransitions: the atomic states that are active,
\* in depth-first order
ActiveAtomics ==
  SelectSeq(DepthFirst(<<"root">>), LAMBDA s : isAtomic(s) /\ isActive(s))

selectTransitions(pEvent) == WalkAll(ActiveAtomics, pEvent)

(***************************************************************************)
(* Exit and entry lists.                                                   *)
(***************************************************************************)
\* the loop of listExitStates: lFifo is the work list, lToExitList the
\* result under construction (push_front)
\* mutant of ExitLoop: the active children are appended (push_back)
RECURSIVE ExitLoop_PushBack(_, _)
ExitLoop_PushBack(lFifo, lToExitList) ==
  IF lFifo = <<>> THEN lToExitList
  ELSE LET lKids == SelectSeq(mChildren(Head(lFifo)), isActive)
       IN  ExitLoop_PushBack(Tail(lFifo) \o lKids, lToExitList \o lKids)

RECURSIVE ExitLoop(_, _)
ExitLoop(lFifo, lToExitList) ==
  IF lFifo = <<>> THEN lToExitList
  ELSE LET lKids == SelectSeq(mChildren(Head(lFifo)), isActive)
       IN  ExitLoop(Tail(lFifo) \o lKids, Reverse(lKids) \o lToExitList)

listExitStates(pTransition) ==
  LET lCommonAncestor ==
        findLeastCommonAncestor(mSource(pTransition), mTarget(pTransition))
  IN  IF isActive(lCommonAncestor) THEN ExitLoop(<<lCommonAncestor>>, <<>>)
      ELSE <<>>

\* first loop of listEntryStates: the completion below the target
RECURSIVE EntryLoop(_, _)
EntryLoop(lFifo, lToEnterList) ==
  IF lFifo = <<>> THEN lToEnterList
  ELSE LET lCurrent == Head(lFifo)
           lKids == IF mIsParallel(lCurrent) THEN mChildren(lCurrent)
                    ELSE IF mInitial(lCurrent) # nullptr
                         THEN <<mInitial(lCurrent)>>
                         ELSE <<>>
       IN  EntryLoop(Tail(lFifo) \o lKids, lToEnterList \o lKids)

\* second loop: the inactive ancestors, nearest last (push_front)
RECURSIVE InactiveAncestors(_)
InactiveAncestors(lActive) ==
  IF lActive = nullptr \/ isActive(lActive) THEN <<>>
  ELSE InactiveAncestors(mParent(lActive)) \o <<lActive>>

InsertAt(seq, i, x) == SubSeq(seq, 1, i - 1) \o <<x>> \o SubSeq(seq, i, Len(seq))

\* the for loop over the children of the parallel state found in the list:
\* it is the index of lEnterListIt, already the element lAlreadyInserted
\* points to; yields the list and the index of lEnterListIt
RECURSIVE ParallelChildren(_, _, _, _)
ParallelChildren(lKids, list, it, already) ==
  IF lKids = <<>> THEN [list |-> list, it |-> it]
  ELSE IF Head(lKids) = already
       THEN ParallelChildren(Tail(lKids), list, it + 1, already)
       ELSE ParallelChildren(Tail(lKids), InsertAt(list, it + 1, Head(lKids)),
                             it + 1, already)

\* third loop: while (lEnterListIt != lToEnterList.end())
RECURSIVE ParallelLoop(_, _)
ParallelLoop(list, it) ==
  IF it > Len(list) THEN list
  ELSE IF mIsParallel(list[it]) /\ mChildren(list[it]) # <<>>
       THEN LET already == IF it < Len(list) THEN list[it + 1] ELSE nullptr
                r == ParallelChildren(mChildren(list[it]), list, it, already)
            IN  ParallelLoop(r.list, r.it + 1)
       ELSE ParallelLoop(list, it + 1)

listEntryStates(pState) ==
  IF pState = nullptr THEN <<>>
  ELSE ParallelLoop(InactiveAncestors(mParent(pState))
                      \o EntryLoop(<<pState>>, <<pState>>), 1)

(***************************************************************************)
(* Conflict resolver.                                                      *)
(***************************************************************************)
\* mutant of IntersectNotEmpty: no two exit lists ever intersect
IntersectNotEmpty_Never(lWasNotEmpty, lToCheckExits, lCheckAgainstExits) == FALSE

\* lIntersect is only ever tested for emptiness.  It grows by
\* lToCheckExits.size() + lCheckAgainstExits.size() null pointers at every
\* comparison and is never cleared, so it is empty exactly as long as every
\* comparison so far was between two empty exit lists.
IntersectNotEmpty(lWasNotEmpty, lToCheckExits, lCheckAgainstExits) ==
  lWasNotEmpty \/ Len(lToCheckExits) + Len(lCheckAgainstExits) > 0

\* one turn of the inner loop "for (auto lCheckAgainst : lFiltered)"; acc
\* holds lCheckPreempted, lToRemove and whether lIntersect is not empty
CheckOne(lCheckAgainst, lTransitionToCheck, acc) ==
  IF mTarget(lCheckAgainst) = nullptr THEN acc
  ELSE LET ne == IntersectNotEmpty(acc.lNotEmpty,
                                   listExitStates(lTransitionToCheck),
                                   listExitStates(lCheckAgainst))
       IN  IF ~ne THEN acc
           ELSE IF isDescendant(mTarget(lTransitionToCheck), mTarget(lCheckAgainst))
           THEN [acc EXCEPT !.lToRemove = Append(@, lCheckAgainst), !.lNotEmpty = ne]
           ELSE [acc EXCEPT !.lCheckPreempted = TRUE, !.lNotEmpty = ne]

\* the inner loop, left by break once lCheckPreempted is set
RECURSIVE CheckAgainst(_, _, _)
CheckAgainst(lRest, lTransitionToCheck, acc) ==
  IF lRest = <<>> \/ acc.lCheckPreempted THEN acc
  ELSE CheckAgainst(Tail(lRest), lTransitionToCheck,
                    CheckOne(Head(lRest), lTransitionToCheck, acc))

\* std::remove + erase of every transition of lToRemove
RECURSIVE RemoveAll(_, _)
RemoveAll(lFiltered, lToRemove) ==
  IF lFiltered = <<>> THEN <<>>
  ELSE (IF \E i \in 1..Len(lToRemove) : lToRemove[i] = Head(lFiltered)
        THEN <<>> ELSE <<Head(lFiltered)>>)
       \o RemoveAll(Tail(lFiltered), lToRemove)

\* mutant of FilterOne: a transition without a target is compared like any other
FilterOne_NoTargetlessShortcut(lTransitionToCheck, st) ==
  IF st.lFiltered = <<>>
  THEN [st EXCEPT !.lFiltered = Append(@, lTransitionToCheck)]
  ELSE LET r == CheckAgainst(st.lFiltered, lTransitionToCheck,
                             [lCheckPreempted |-> FALSE, lToRemove |-> <<>>,
                              lNotEmpty |-> st.lNotEmpty])
           lKept == RemoveAll(st.lFiltered, r.lToRemove)
       IN  IF r.lCheckPreempted
           THEN [st EXCEPT !.lNotEmpty = r.lNotEmpty]
           ELSE [lFiltered |-> Append(lKept, lTransitionToCheck),
                 lNotEmpty |-> r.lNotEmpty]

\* one turn of the outer loop "for (auto lTransitionToCheck : pTransitions)";
\* st holds lFiltered and whether lIntersect is not empty
FilterOne(lTransitionToCheck, st) ==
  IF st.lFiltered = <<>> \/ mTarget(lTransitionToCheck) = nullptr
  THEN [st EXCEPT !.lFiltered = Append(@, lTransitionToCheck)]
  ELSE LET r == CheckAgainst(st.lFiltered, lTransitionToCheck,
                             [lCheckPreempted |-> FALSE, lToRemove |-> <<>>,
                              lNotEmpty |-> st.lNotEmpty])
           lKept == RemoveAll(st.lFiltered, r.lToRemove)
       IN  IF r.lCheckPreempted
           THEN [st EXCEPT !.lNotEmpty = r.lNotEmpty]
           ELSE [lFiltered |-> Append(lKept, lTransitionToCheck),
                 lNotEmpty |-> r.lNotEmpty]

RECURSIVE FilterLoop(_, _)
FilterLoop(pTransitions, st) ==
  IF pTransitions = <<>> THEN st.lFiltered
  ELSE FilterLoop(Tail(pTransitions), FilterOne(Head(pTransitions), st))

\* mutant of removeConflicts: every candidate is accepted
removeConflicts_AcceptAll(pTransitions) == pTransitions

removeConflicts(pTransitions) ==
  FilterLoop(pTransitions, [lFiltered |-> <<>>, lNotEmpty |-> FALSE])

\* the lists exitStates(pTransitions) and enterStates(pTransitions) build
\* before they call leave() / enter() on any state
RECURSIVE ExitList(_)
ExitList(pTransitions) ==
  IF pTransitions = <<>> THEN <<>>
  ELSE (IF mTarget(Head(pTransitions)) = nullptr THEN <<>>
        ELSE listExitStates(Head(pTransitions)))
       \o ExitList(Tail(pTransitions))

RECURSIVE EntryList(_)
EntryList(pTransitions) ==
  IF pTransitions = <<>> THEN <<>>
  ELSE (IF mTarget(Head(pTransitions)) = nullptr THEN <<>>
        ELSE listEntryStates(mTarget(Head(pTransitions))))
       \o EntryList(Tail(pTransitions))

\* mutant of LeaveLoop: every visited state is pushed to the back
RECURSIVE LeaveLoop_PushBack(_, _)
LeaveLoop_PushBack(lLifo, lToLeave) ==
  IF lLifo = <<>> THEN lToLeave
  ELSE LET lCurrent == Head(lLifo)
           lNext == IF ~isActive(lCurrent) THEN <<>>
                    ELSE IF mIsParallel(lCurrent) THEN mChildren(lCurrent)
                    ELSE IF mActive[lCurrent] # nullptr THEN <<mActive[lCurrent]>>
                    ELSE <<>>
       IN  LeaveLoop_PushBack(lNext \o Tail(lLifo), lToLeave \o <<lCurrent>>)

\* lToLeave of StateMachine::leave: depth first along the active states,
\* every visited state pushed to the front
RECURSIVE LeaveLoop(_, _)
LeaveLoop(lLifo, lToLeave) ==
  IF lLifo = <<>> THEN lToLeave
  ELSE LET lCurrent == Head(lLifo)
           lNext == IF ~isActive(lCurrent) THEN <<>>
                    ELSE IF mIsParallel(lCurrent) THEN mChildren(lCurrent)
                    ELSE IF mActive[lCurrent] # nullptr THEN <<mActive[lCurrent]>>
                    ELSE <<>>
       IN  LeaveLoop(lNext \o Tail(lLifo), <<lCurrent>> \o lToLeave)

(***************************************************************************)
(* StateImpl::enter and StateImpl::leave: the assignments they make before *)
(* they call the state's OnEntry / OnExit actions.                         *)
(***************************************************************************)
StateImpl_enter(s) ==
  LET a1 == IF ~mIsParallel(s) /\ mInitial(s) # nullptr
            THEN [mActive EXCEPT ![s] = mInitial(s)]
            ELSE mActive
  IN  IF mParent(s) # nullptr /\ ~mIsParallel(mParent(s))
      THEN [a1 EXCEPT ![mParent(s)] = s]
      ELSE a1

StateImpl_leave(s) ==
  IF mParent(s) # nullptr /\ ~mIsParallel(mParent(s))
  THEN [mActive EXCEPT ![mParent(s)] = nullptr]
  ELSE mActive

(***************************************************************************)
(* The call stack.  A frame is one running StateMachine::enter, leave or   *)
(* processEvents; cb names the user callback that frame is running, if any.*)
(***************************************************************************)
Frame(op, pc, states, trans, idx, cb) ==
  [op |-> op, pc |-> pc, states |-> states, trans |-> trans, idx |-> idx, cb |-> cb]

Top == stack[Len(stack)]

Below == SubSeq(stack, 1, Len(stack) - 1)

SetTop(f) == [stack EXCEPT ![Len(stack)] = f]

Running(op) == stack # <<>> /\ Top.op = op /\ Top.cb = "none"

InCallback == stack # <<>> /\ Top.cb # "none"

NoRet == [op |-> "none", how |-> "none", outer |-> FALSE]

Returned(op, outer) == [op |-> op, how |-> "normal", outer |-> outer]

\* a processEvents frame is on the stack
Processing(stk) == \E i \in 1..Len(stk) : stk[i].op = "process"

Configuration == {s \in mAllStates : inState(s)}

NoMicrostep ==
  [event |-> nullptr, cand |-> <<>>, filtered |-> <<>>, log |-> <<>>,
   before |-> {}, atPhase |-> {}, nested |-> FALSE, done |-> FALSE]

Logged(kind, id) == [ms EXCEPT !.log = Append(@, <<kind, id>>)]

\* hist.last keeps, for every state, the kind (on_entry or on_exit) of the
\* latest invocation of its lifecycle callbacks, as long as no callback has
\* called the machine or thrown
NoLast == [s \in mAllStates |-> "none"]

\* the lifecycle callbacks of the state s are invoked
Invoked(kind, s) ==
  IF cbHistory = "quiet" THEN [hist EXCEPT !.last[s] = kind] ELSE hist

(***************************************************************************)
(* The three operations of the API, called on the stack stk (empty when    *)
(* the host calls, the stack with the callback's frame on top otherwise).  *)
(***************************************************************************)
\* mutant of CallEnter: enter() without its test of mIsActive
CallEnter_NoGuard ==
  /\ mIsActive' = TRUE
  /\ stack' = Append(stack, Frame("enter", "run", <<"root">>, <<>>, 0, "none"))
  /\ ret' = NoRet

\* StateMachine::enter up to its loop
CallEnter ==
  IF mIsActive
  THEN /\ ret' = Returned("enter", FALSE)
       /\ UNCHANGED <<mIsActive, stack>>
  ELSE /\ mIsActive' = TRUE
       /\ stack' = Append(stack, Frame("enter", "run", <<"root">>, <<>>, 0, "none"))
       /\ ret' = NoRet

\* StateMachine::leave up to the loop that calls StateImpl::leave
CallLeave ==
  IF ~mIsActive
  THEN /\ ret' = Returned("leave", FALSE)
       /\ UNCHANGED stack
  ELSE /\ stack' = Append(stack, Frame("leave", "run",
                                       LeaveLoop(<<"root">>, <<>>), <<>>, 0, "none"))
       /\ ret' = NoRet

\* mutant of StartsProcessing: processEvents without its re-entrance test
StartsProcessing_NoGuard == TRUE

\* the test at the top of processEvents
StartsProcessing == ~mInToplevelProcess

\* StateMachine::pushEvent and processEvents up to its loop
CallPushEvent(pEvent) ==
  /\ mEvents' = Append(mEvents, pEvent)
  /\ IF StartsProcessing
     THEN /\ mInToplevelProcess' = TRUE
          /\ stack' = Append(stack, Frame("process", "select", <<>>, <<>>, 0, "none"))
          /\ ret' = NoRet
     ELSE /\ ret' = Returned("pushEvent", ~Processing(stack))
          /\ UNCHANGED <<mInToplevelProcess, stack>>

(***************************************************************************)
(* The host.                                                               *)
(***************************************************************************)
Init ==
  /\ topo \in 1..Len(Descriptors)
  /\ impl = Build(Descriptors[topo])
  /\ mIsActive = FALSE
  /\ mInToplevelProcess = FALSE
  /\ mEvents = <<>>
  /\ mActive = [s \in Names(Descriptors[topo]) |-> nullptr]
  /\ stack = <<>>
  /\ condValue = TRUE
  /\ cbOps = 0
  /\ ms = NoMicrostep
  /\ ret = NoRet
  /\ cbHistory = "quiet"
  /\ hist = [entered |-> <<>>, exited |-> <<>>, clean |-> TRUE, everEntered |-> FALSE,
             last |-> [s \in Names(Descriptors[topo]) |-> "none"]]

Enter ==
  /\ stack = <<>>
  /\ CallEnter
  /\ cbOps' = 0
  /\ hist' = [hist EXCEPT !.entered = <<>>, !.exited = <<>>, !.clean = TRUE,
                          !.everEntered = TRUE]
  /\ UNCHANGED <<topo, impl, cbHistory, mInToplevelProcess, mEvents, mActive, condValue, ms>>

Leave ==
  /\ stack = <<>>
  /\ CallLeave
  /\ cbOps' = 0
  /\ hist' = [hist EXCEPT !.exited = <<>>]
  /\ UNCHANGED <<topo, impl, cbHistory, mIsActive, mInToplevelProcess, mEvents, mActive, condValue, ms>>

PushEvent ==
  /\ stack = <<>>
  /\ Len(mEvents) < MaxQueue
  /\ \E pEvent \in EventNames[topo] : CallPushEvent(pEvent)
  /\ cbOps' = 0
  /\ hist' = [hist EXCEPT !.entered = <<>>, !.exited = <<>>, !.clean = FALSE]
  /\ UNCHANGED <<topo, impl, cbHistory, mIsActive, mActive, condValue, ms>>

\* the host changes the data the Condition functions read
SetCondition ==
  /\ stack = <<>>
  /\ HasConditions
  /\ condValue' = ~condValue
  /\ ret' = NoRet
  /\ UNCHANGED <<topo, impl, hist, cbHistory, mIsActive, mInToplevelProcess, mEvents, mActive, stack, cbOps, ms>>

(***************************************************************************)
(* StateMachine::enter, the loop.                                          *)
(***************************************************************************)
\* mutant of PushedAfter: every child is pushed, whatever the kind of lCurrent
PushedAfter_AllChildren(lCurrent) == mChildren(lCurrent)

\* what the loop of enter() pushes to the front of lToEnter after lCurrent
PushedAfter(lCurrent) ==
  IF ~mIsParallel(lCurrent)
  THEN IF mInitial(lCurrent) # nullptr THEN <<mInitial(lCurrent)>> ELSE <<>>
  ELSE mChildren(lCurrent)

EnterStep ==
  /\ Running("enter")
  /\ Top.states # <<>>
  /\ LET lCurrent == Head(Top.states)
     IN  /\ mActive' = StateImpl_enter(lCurrent)
         /\ stack' = SetTop([Top EXCEPT
                               !.states = PushedAfter(lCurrent) \o Tail(@),
                               !.cb = "on_entry"])
         /\ hist' = IF Len(stack) = 1
                    THEN [Invoked("on_entry", lCurrent) EXCEPT !.entered = Append(@, lCurrent)]
                    ELSE Invoked("on_entry", lCurrent)
  /\ ret' = NoRet
  /\ UNCHANGED <<topo, impl, cbHistory, mIsActive, mInToplevelProcess, mEvents, condValue, cbOps, ms>>

EnterReturn ==
  /\ Running("enter")
  /\ Top.states = <<>>
  /\ stack' = Below
  /\ ret' = Returned("enter", FALSE)
  /\ UNCHANGED <<topo, impl, hist, cbHistory, mIsActive, mInToplevelProcess, mEvents, mActive, condValue,
                 cbOps, ms>>

(***************************************************************************)
(* StateMachine::leave, the loop over lToLeave.                            *)
(***************************************************************************)
LeaveStep ==
  /\ Running("leave")
  /\ Top.states # <<>>
  /\ mActive' = StateImpl_leave(Head(Top.states))
  /\ stack' = SetTop([Top EXCEPT !.states = Tail(@), !.cb = "on_exit"])
  /\ hist' = IF Len(stack) = 1
             THEN [Invoked("on_exit", Head(Top.states)) EXCEPT
                     !.exited = Append(@, Head(Top.states))]
             ELSE Invoked("on_exit", Head(Top.states))
  /\ ret' = NoRet
  /\ UNCHANGED <<topo, impl, cbHistory, mIsActive, mInToplevelProcess, mEvents, condValue, cbOps, ms>>

LeaveReturn ==
  /\ Running("leave")
  /\ Top.states = <<>>
  /\ mIsActive' = FALSE
  /\ stack' = Below
  /\ ret' = Returned("leave", FALSE)
  /\ UNCHANGED <<topo, impl, hist, cbHistory, mInToplevelProcess, mEvents, mActive, condValue, cbOps, ms>>

(***************************************************************************)
(* StateMachine::processEvents and processTransitions.                     *)
(***************************************************************************)
\* mutant of PhaseAfter: the actions run before exitStates
PhaseAfter_ActionsFirst(pc) ==
  CASE pc = "select" -> "action"
    [] pc = "action" -> "exit"
    [] pc = "exit"   -> "entry"
    [] pc = "entry"  -> "select"

\* the order in which processTransitions runs its three phases
PhaseAfter(pc) ==
  CASE pc = "select" -> "exit"
    [] pc = "exit"   -> "action"
    [] pc = "action" -> "entry"
    [] pc = "entry"  -> "select"

\* mutant of PhaseList: enterStates is handed every transition of the machine
PhaseList_EnterAll(pc, lFiltered) ==
  CASE pc = "exit"   -> ExitList(lFiltered)
    [] pc = "action" -> <<>>
    [] pc = "entry"  -> EntryList([i \in 1..Len(impl.mTransitions) |-> i])
    [] pc = "select" -> <<>>

\* the list a phase works through, computed when the phase starts
PhaseList(pc, lFiltered) ==
  CASE pc = "exit"   -> ExitList(lFiltered)
    [] pc = "action" -> <<>>
    [] pc = "entry"  -> EntryList(lFiltered)
    [] pc = "select" -> <<>>

\* while (!mEvents.empty()): selectTransitions, removeConflicts and the list of
\* exitStates, none of which calls a callback that can change the machine
Select ==
  /\ Running("process")
  /\ Top.pc = "select"
  /\ mEvents # <<>>
  /\ LET lEvent == Head(mEvents)
         lTransitions == selectTransitions(lEvent)
         lFiltered == removeConflicts(lTransitions)
         next == PhaseAfter("select")
     IN  /\ stack' = SetTop([Top EXCEPT !.pc = next,
                                        !.states = PhaseList(next, lFiltered),
                                        !.trans = lFiltered,
                                        !.idx = 1])
         /\ ms' = [event |-> lEvent, cand |-> lTransitions, filtered |-> lFiltered,
                   log |-> <<>>, before |-> Configuration,
                   atPhase |-> Configuration, nested |-> FALSE, done |-> FALSE]
  /\ ret' = NoRet
  /\ UNCHANGED <<topo, impl, hist, cbHistory, mIsActive, mInToplevelProcess, mEvents, mActive, condValue, cbOps>>

\* the queue is empty: processEvents clears the flag and returns
ProcessReturn ==
  /\ Running("process")
  /\ Top.pc = "select"
  /\ mEvents = <<>>
  /\ mInToplevelProcess' = FALSE
  /\ stack' = Below
  /\ ret' = Returned("pushEvent", ~Processing(Below))
  /\ ms' = NoMicrostep
  /\ UNCHANGED <<topo, impl, hist, cbHistory, mIsActive, mEvents, mActive, condValue, cbOps>>

\* exitStates: lState->leave() for the next state of lToExit
ExitStep ==
  /\ Running("process")
  /\ Top.pc = "exit"
  /\ Top.states # <<>>
  /\ mActive' = StateImpl_leave(Head(Top.states))
  /\ stack' = SetTop([Top EXCEPT !.states = Tail(@), !.cb = "on_exit"])
  /\ ms' = Logged("exit", Head(Top.states))
  /\ hist' = Invoked("on_exit", Head(Top.states))
  /\ ret' = NoRet
  /\ UNCHANGED <<topo, impl, cbHistory, mIsActive, mInToplevelProcess, mEvents, condValue, cbOps>>

\* a phase has worked through its list: the next phase starts.  After the
\* entry phase processEvents pops the event.
PhaseDone ==
  /\ Running("process")
  /\ Top.pc \in {"exit", "action", "entry"}
  /\ IF Top.pc = "action" THEN Top.idx > Len(Top.trans) ELSE Top.states = <<>>
  /\ LET next == PhaseAfter(Top.pc)
     IN  /\ stack' = SetTop([Top EXCEPT !.pc = next,
                                        !.states = PhaseList(next, Top.trans),
                                        !.idx = 1])
         /\ mEvents' = IF next = "select" THEN Tail(mEvents) ELSE mEvents
         /\ ms' = [ms EXCEPT !.done = (next = "select"), !.atPhase = Configuration]
  /\ ret' = NoRet
  /\ UNCHANGED <<topo, impl, hist, cbHistory, mIsActive, mInToplevelProcess, mActive, condValue, cbOps>>

\* lTransition->doAction(*this) for the next transition of lFiltered
ActionStep ==
  /\ Running("process")
  /\ Top.pc = "action"
  /\ Top.idx <= Len(Top.trans)
  /\ stack' = SetTop([Top EXCEPT !.idx = @ + 1, !.cb = "action"])
  /\ ms' = Logged("action", Top.trans[Top.idx])
  /\ ret' = NoRet
  /\ UNCHANGED <<topo, impl, hist, cbHistory, mIsActive, mInToplevelProcess, mEvents, mActive, condValue, cbOps>>

\* enterStates: lState->enter() for the next state of lToEnter
EntryStep ==
  /\ Running("process")
  /\ Top.pc = "entry"
  /\ Top.states # <<>>
  /\ mActive' = StateImpl_enter(Head(Top.states))
  /\ stack' = SetTop([Top EXCEPT !.states = Tail(@), !.cb = "on_entry"])
  /\ ms' = Logged("entry", Head(Top.states))
  /\ hist' = Invoked("on_entry", Head(Top.states))
  /\ ret' = NoRet
  /\ UNCHANGED <<topo, impl, cbHistory, mIsActive, mInToplevelProcess, mEvents, condValue, cbOps>>

(***************************************************************************)
(* User callbacks: an OnEntry, OnExit or Action function is running.  It   *)
(* may call the machine it is handed, throw, or return.                    *)
(***************************************************************************)
CbReturn ==
  /\ InCallback
  /\ stack' = SetTop([Top EXCEPT !.cb = "none"])
  /\ ret' = NoRet
  /\ UNCHANGED <<topo, impl, hist, cbHistory, mIsActive, mInToplevelProcess, mEvents, mActive, condValue,
                 cbOps, ms>>

CbEnter ==
  /\ InCallback
  /\ cbOps < MaxCbOps
  /\ cbOps' = cbOps + 1
  /\ CallEnter
  /\ ms' = [ms EXCEPT !.nested = @ \/ ~mIsActive]
  /\ cbHistory' = IF cbHistory \in {"quiet", "pushed"} THEN "called" ELSE cbHistory
  /\ hist' = [hist EXCEPT !.clean = FALSE, !.last = NoLast]
  /\ UNCHANGED <<topo, impl, mInToplevelProcess, mEvents, mActive, condValue>>

CbLeave ==
  /\ InCallback
  /\ cbOps < MaxCbOps
  /\ cbOps' = cbOps + 1
  /\ CallLeave
  /\ ms' = [ms EXCEPT !.nested = @ \/ mIsActive]
  /\ cbHistory' = IF cbHistory \in {"quiet", "pushed"} THEN "called" ELSE cbHistory
  /\ hist' = [hist EXCEPT !.clean = FALSE, !.last = NoLast]
  /\ UNCHANGED <<topo, impl, mIsActive, mInToplevelProcess, mEvents, mActive, condValue>>

CbPushEvent ==
  /\ InCallback
  /\ cbOps < MaxCbOps
  /\ Len(mEvents) < MaxQueue
  /\ cbOps' = cbOps + 1
  /\ \E pEvent \in EventNames[topo] : CallPushEvent(pEvent)
  /\ cbHistory' = IF cbHistory = "quiet" THEN "pushed" ELSE cbHistory
  /\ hist' = [hist EXCEPT !.clean = FALSE, !.last = NoLast]
  /\ UNCHANGED <<topo, impl, mIsActive, mActive, condValue, ms>>

\* the exception unwinds every frame up to the host; no frame catches it
CbThrow ==
  /\ InCallback
  /\ cbOps < MaxCbOps
  /\ cbOps' = cbOps + 1
  /\ stack' = <<>>
  /\ ret' = [op |-> Top.op, how |-> "throw", outer |-> FALSE]
  /\ cbHistory' = "threw"
  /\ ms' = NoMicrostep
  /\ hist' = [hist EXCEPT !.clean = FALSE, !.last = NoLast]
  /\ UNCHANGED <<topo, impl, mIsActive, mInToplevelProcess, mEvents, mActive, condValue>>

Next ==
  \/ Enter \/ Leave \/ PushEvent \/ SetCondition
  \/ EnterStep \/ EnterReturn \/ LeaveStep \/ LeaveReturn
  \/ Select \/ ProcessReturn \/ ExitStep \/ ActionStep \/ EntryStep \/ PhaseDone
  \/ CbReturn \/ CbEnter \/ CbLeave \/ CbPushEvent \/ CbThrow

Spec == Init /\ [][Next]_vars

(***************************************************************************)
(* Properties.                                                             *)
(***************************************************************************)
Range(seq) == {seq[i] : i \in 1..Len(seq)}

\* the microstep's own callbacks of one kind, in the order they ran
LogOf(kind) ==
  LET sel == SelectSeq(ms.log, LAMBDA x : x[1] = kind)
  IN  [i \in 1..Len(sel) |-> sel[i][2]]

Rank(kind) ==
  CASE kind = "exit" -> 1 [] kind = "action" -> 2 [] kind = "entry" -> 3

\* C1: within a microstep every on_exit callback of the exited states runs
\* before every transition action, and every action before every on_entry
\* callback of the entered states.
C1_ExitsActionsEntries ==
  \A i, j \in 1..Len(ms.log) :
     i < j => Rank(ms.log[i][1]) <= Rank(ms.log[j][1])

\* a completed microstep that exited states, ran an action and entered states
C1_Witness ==
  /\ ms.done
  /\ LogOf("exit") # <<>> /\ LogOf("action") # <<>> /\ LogOf("entry") # <<>>

\* C2: a pushEvent made while a microstep is in progress only appends the
\* event: the same frames go on running, nothing is selected for the new
\* event and the configuration does not change in that step.
C2_RunToCompletion ==
  [][(Processing(stack) /\ Len(mEvents') > Len(mEvents))
       => /\ mEvents' = Append(mEvents, mEvents'[Len(mEvents')])
          /\ stack' = stack
          /\ ms' = ms
          /\ mActive' = mActive
          /\ mIsActive' = mIsActive
          /\ mInToplevelProcess' = mInToplevelProcess]_vars

\* a callback of a microstep has just pushed an event, and the microstep's
\* event is still at the front of the queue
C2_Witness ==
  /\ InCallback
  /\ Processing(stack)
  /\ ret = Returned("pushEvent", FALSE)
  /\ Len(mEvents) >= 2
  /\ Head(mEvents) = ms.event

\* C3: events are processed one microstep per event in the order they were
\* pushed, and when the outermost pushEvent call returns normally the event
\* queue is empty and the re-entrance flag is false.
C3_FifoDrained ==
  /\ (Processing(stack) /\ ms.event # nullptr /\ ~ms.done) => ms.event = Head(mEvents)
  /\ (ret = Returned("pushEvent", TRUE)) => (mEvents = <<>> /\ ~mInToplevelProcess)

\* no operation of the machine is on the call stack
Idle == stack = <<>>

ActiveChildren(s) == {c \in Range(mChildren(s)) : inState(c)}

\* C4: whenever no microstep is in progress, every active compound
\* (non-parallel, with children) state has exactly one active child.  Stated
\* for the runs in which no callback called the machine or threw.
C4_OneActiveChild ==
  (Idle /\ cbHistory = "quiet")
    => \A s \in mAllStates :
         (inState(s) /\ ~isAtomic(s) /\ ~mIsParallel(s))
           => Cardinality(ActiveChildren(s)) = 1

Ancestors(s) == {a \in mAllStates : a # s /\ isDescendant(s, a)}

\* C5: if inState(X) holds for an atomic state X then inState(Y) holds for
\* every ancestor Y of X up to the root, and no state is reported active
\* while isActive() is false.  Stated for the runs in which no callback threw.
C5_AncestorsActive ==
  (cbHistory # "threw")
    => /\ \A x \in mAllStates :
            (isAtomic(x) /\ inState(x)) => \A y \in Ancestors(x) : inState(y)
       /\ \A x \in mAllStates : inState(x) => mIsActive

\* C6: if a parallel state P is active then every child of P is active.
C6_ParallelChildrenActive ==
  \A p \in mAllStates :
     (mIsParallel(p) /\ inState(p)) => \A c \in Range(mChildren(p)) : inState(c)

\* the parallel state S1 is active after enter(), with its two regions
C6_Witness ==
  /\ topo = 2
  /\ Idle
  /\ ret = Returned("enter", FALSE)
  /\ inState("S1") /\ inState("SA") /\ inState("SB")

\* processTransitions has selected and filtered, and has called no callback yet
JustSelected ==
  /\ Running("process")
  /\ Top.pc = "exit"
  /\ ms.log = <<>>

ExitSet(t) == Range(listExitStates(t))

\* C7: the resolver accepts every candidate whose exit set is disjoint from
\* the exit sets of all accepted transitions, so two in-region transitions
\* of two children of an active parallel state both fire.
C7_DisjointAccepted ==
  JustSelected
    => \A t \in Range(ms.cand) :
         (/\ mTarget(t) # nullptr
          /\ \A u \in Range(ms.filtered) :
               (u # t /\ mTarget(u) # nullptr) => ExitSet(t) \cap ExitSet(u) = {})
           => t \in Range(ms.filtered)

\* s is an ancestor or a descendant of pTarget, or lies in a region of a
\* parallel ancestor of pTarget: where entering pTarget can enter states
OnEntryBranch(s, pTarget) ==
  \/ isDescendant(s, pTarget)
  \/ isDescendant(pTarget, s)
  \/ \E p \in mAllStates :
        mIsParallel(p) /\ isDescendant(s, p) /\ isDescendant(pTarget, p)

\* C8: of two candidates with intersecting exit sets, the later one's target
\* not a descendant of the earlier one's, only the earlier one fires: the
\* later one is not accepted, its action is not invoked (every action run is
\* an accepted transition's) and its target is not entered (every state
\* entered lies on the branch of an accepted transition's target).
C8_LaterPreempted ==
  /\ JustSelected
       => \A i, j \in 1..Len(ms.cand) :
            (/\ i < j
             /\ mTarget(ms.cand[i]) # nullptr
             /\ mTarget(ms.cand[j]) # nullptr
             /\ ExitSet(ms.cand[i]) \cap ExitSet(ms.cand[j]) # {}
             /\ ~isDescendant(mTarget(ms.cand[j]), mTarget(ms.cand[i]))
             /\ ms.cand[i] \in Range(ms.filtered))
              => ms.cand[j] \notin Range(ms.filtered)
  /\ Range(LogOf("action")) \subseteq Range(ms.filtered)
  /\ \A s \in Range(LogOf("entry")) :
        \E t \in Range(ms.filtered) :
           mTarget(t) # nullptr /\ OnEntryBranch(s, mTarget(t))

\* ParallelConflictingTransition: SA -> S2 and SB -> S3 were both candidates,
\* the microstep ran SA's only
C8_Witness ==
  /\ topo = 2
  /\ ms.done
  /\ ms.cand = <<1, 2>>
  /\ ms.filtered = <<1>>
  /\ LogOf("action") = <<1>>
  /\ inState("S2") /\ ~inState("S3")

\* the transitions of s for pEvent whose guard holds
Enabled(s, pEvent) == {t \in Range(equal_range(s, pEvent)) : test(t)}

\* the first states, walking from the atomic state a toward the root, that
\* declare an enabled transition for pEvent
Innermost(a, pEvent) ==
  {s \in mAllStates :
     /\ isDescendant(a, s)
     /\ Enabled(s, pEvent) # {}
     /\ \A s2 \in mAllStates :
          (s2 # s /\ isDescendant(a, s2) /\ isDescendant(s2, s))
            => Enabled(s2, pEvent) = {}}

\* C9: the candidates are exactly the enabled transitions of the innermost
\* state, on the chain from each active atomic state to the root, that has
\* one; nothing declared on a higher ancestor is selected or fires.
C9_InnermostWins ==
  /\ JustSelected
       => Range(ms.cand) =
            UNION {Enabled(s, ms.event) :
                     s \in UNION {Innermost(a, ms.event) :
                                    a \in {x \in mAllStates : isAtomic(x) /\ inState(x)}}}
  /\ (topo = 1 /\ ms.event = "event" /\ condValue /\ "S1A" \in ms.before)
       => /\ ms.cand = <<2>>
          /\ 1 \notin Range(LogOf("action"))

\* CheckTransitionOrder: both S1 and S1A had an enabled transition, the
\* microstep ran S1A's only
C9_Witness ==
  /\ topo = 1
  /\ condValue
  /\ ms.done
  /\ "S1A" \in ms.before
  /\ ms.cand = <<2>>
  /\ LogOf("action") = <<2>>

Targeted(lTransitions) == {t \in Range(lTransitions) : mTarget(t) # nullptr}

\* C10: a selected targetless transition is never discarded, its action is
\* invoked, and no state is exited or entered on its behalf: every exit and
\* entry of the microstep belongs to an accepted transition with a target,
\* and a microstep of targetless transitions alone leaves the configuration
\* as it was (unless a callback itself called enter() or leave()).
C10_TargetlessKept ==
  /\ JustSelected
       => \A t \in Range(ms.cand) : mTarget(t) = nullptr => t \in Range(ms.filtered)
  /\ ms.done
       => \A t \in Range(ms.filtered) :
            mTarget(t) = nullptr => t \in Range(LogOf("action"))
  /\ \A s \in Range(LogOf("exit")) :
        \E t \in Targeted(ms.filtered) :
           isDescendant(s, findLeastCommonAncestor(mSource(t), mTarget(t)))
  /\ \A s \in Range(LogOf("entry")) :
        \E t \in Targeted(ms.filtered) : OnEntryBranch(s, mTarget(t))
  /\ (ms.done /\ ~ms.nested /\ Targeted(ms.filtered) = {})
       => /\ Configuration = ms.before
          /\ LogOf("exit") = <<>>
          /\ LogOf("entry") = <<>>

\* TargetlessTransitions: on "ev2" the targetless transitions of S1 and S3
\* were kept around S2A -> S2B and ran; the only exit and entry are those of
\* S2A -> S2B
C10_Witness ==
  /\ topo = 6
  /\ ms.done
  /\ ~ms.nested
  /\ ms.event = "ev2"
  /\ ms.cand = <<6, 7, 8>>
  /\ ms.filtered = <<6, 7, 8>>
  /\ LogOf("action") = <<6, 7, 8>>
  /\ LogOf("exit") = <<"S2A">>
  /\ LogOf("entry") = <<"S2B">>

\* the root's completion in document order (depth-first pre-order): a state,
\* then the completion of its initial child if it is compound, of all its
\* children if it is parallel
RECURSIVE Completion(_)
RECURSIVE CompletionAll(_)
Completion(s) ==
  <<s>> \o (IF mIsParallel(s) THEN CompletionAll(mChildren(s))
            ELSE IF mInitial(s) # nullptr THEN Completion(mInitial(s))
            ELSE <<>>)

CompletionAll(lStates) ==
  IF lStates = <<>> THEN <<>>
  ELSE Completion(Head(lStates)) \o CompletionAll(Tail(lStates))

IsPrefix(a, b) == Len(a) <= Len(b) /\ a = SubSeq(b, 1, Len(a))

\* the host's enter() has returned after entering the machine
EnterDone == Idle /\ ret = Returned("enter", FALSE) /\ hist.entered # <<>>

\* C11: enter() on an inactive machine invokes on_entry in document order
\* over exactly the root, the initial child of every entered compound state
\* and all children of every entered parallel state, whatever the callbacks
\* do short of throwing.
C11_EnterOrder ==
  /\ IsPrefix(hist.entered, Completion("root"))
  /\ EnterDone => hist.entered = Completion("root")

\* ParallelRegions: enter() has run the on_entry of both regions and of their
\* initial children, not of SA2 and SB2
C11_Witness ==
  /\ topo = 4
  /\ EnterDone
  /\ hist.entered = <<"root", "S1", "SA", "SA1", "SB", "SB1">>

\* the host's leave() has returned after leaving the machine, and it was
\* called on the machine as the host's enter() left it: no event was pushed
\* and no callback called the machine or threw since that enter() was called
LeaveAfterEnterDone ==
  /\ Idle
  /\ ret = Returned("leave", FALSE)
  /\ hist.clean
  /\ hist.entered # <<>>
  /\ hist.exited # <<>>

\* C12: enter() immediately followed by leave() invokes on_exit exactly once
\* for every state whose on_entry was invoked and for no other, in the exact
\* reverse of the order of the on_entry calls.
C12_LeaveReversesEnter ==
  LeaveAfterEnterDone => hist.exited = Reverse(hist.entered)

\* ParallelRegions: leave() after enter() has exited the later region first,
\* children before parents
C12_Witness ==
  /\ topo = 4
  /\ LeaveAfterEnterDone
  /\ hist.exited = <<"SB1", "SB", "SA1", "SA", "S1", "root">>

\* a call of leave() has just returned, to the host or to a callback
LeaveReturned == ret.op = "leave" /\ ret.how = "normal"

\* C13: after leave() returns, whatever calls preceded it, calls made from
\* callbacks included, isActive() is false and inState(s) is false for every
\* state s.  Stated for the runs in which the callbacks called nothing but
\* pushEvent and did not throw.
C13_NothingActiveAfterLeave ==
  (LeaveReturned /\ cbHistory \in {"quiet", "pushed"})
    => (~mIsActive /\ \A s \in mAllStates : ~inState(s))

\* C14: whenever enter() is called on an inactive machine, the set of active
\* states when it returns is exactly the root plus its initial completion,
\* whatever was processed before the preceding leave().  Stated for the runs
\* in which the callbacks called nothing but pushEvent and did not throw.
C14_EnterYieldsCompletion ==
  (EnterDone /\ cbHistory \in {"quiet", "pushed"})
    => Configuration = Range(Completion("root"))

\* enter() is called on an active machine or leave() on an inactive one, by
\* the host or by a callback
RedundantCall ==
  \/ (Enter \/ CbEnter) /\ mIsActive
  \/ (Leave \/ CbLeave) /\ ~mIsActive

\* C15: enter() on an active machine and leave() on an inactive machine
\* start nothing (no callback is invoked) and leave the configuration, the
\* event queue and the active flag unchanged.
C15_Idempotent ==
  [][RedundantCall
       => /\ stack' = stack
          /\ mActive' = mActive
          /\ mIsActive' = mIsActive
          /\ mEvents' = mEvents
          /\ mInToplevelProcess' = mInToplevelProcess
          /\ ms'.log = ms.log]_vars

\* the host has called enter() on the active machine: the call returned
\* having invoked no on_entry
C15_Witness ==
  /\ Idle
  /\ mIsActive
  /\ ret = Returned("enter", FALSE)
  /\ hist.entered = <<>>
  /\ Configuration = Range(Completion("root"))

\* the position of the state s in document order
DocPos(s) ==
  LET lOrder == DepthFirst(<<"root">>)
  IN  CHOOSE i \in 1..Len(lOrder) : lOrder[i] = s

RECURSIVE IsSubsequence(_, _)
IsSubsequence(a, b) ==
  IF a = <<>> THEN TRUE
  ELSE IF b = <<>> THEN FALSE
  ELSE IF Head(a) = Head(b) THEN IsSubsequence(Tail(a), Tail(b))
  ELSE IsSubsequence(a, Tail(b))

\* the active atomic states on whose behalf the transition t was selected
Producers(t) ==
  {a \in mAllStates :
     isAtomic(a) /\ inState(a) /\ mSource(t) \in Innermost(a, ms.event)}

\* C16: the actions of a microstep run in the order of the accepted list,
\* which is an order-preserving subsequence of the candidate list; the
\* candidates are in the document order of the active atomic states that
\* produced them, those one atomic state produced in declaration order.
C16_ActionOrder ==
  /\ IsPrefix(LogOf("action"), ms.filtered)
  /\ JustSelected
       => /\ IsSubsequence(ms.filtered, ms.cand)
          /\ \A i, j \in 1..Len(ms.cand) :
               i < j
                 => \E a \in Producers(ms.cand[i]), b \in Producers(ms.cand[j]) :
                      /\ DocPos(a) <= DocPos(b)
                      /\ (/\ mSource(ms.cand[i]) = mSource(ms.cand[j])
                          /\ Cardinality(Producers(ms.cand[i])) = 1)
                           => ms.cand[i] < ms.cand[j]

\* TargetlessTransitions: on "event" the two transitions of S1 ran in
\* declaration order, then the one of S2A in the next region
C16_Witness ==
  /\ topo = 6
  /\ ms.done
  /\ ms.event = "event"
  /\ ms.cand = <<1, 2, 4>>
  /\ LogOf("action") = <<1, 2, 4>>

\* the index of the first on_entry call of the state s in the microstep, 0
\* if there is none
FirstEntry(s) ==
  LET log == LogOf("entry")
  IN  IF s \in Range(log)
      THEN CHOOSE i \in 1..Len(log) :
             log[i] = s /\ \A k \in 1..(i - 1) : log[k] # s
      ELSE 0

\* the parallel states above the target of t that were inactive before the
\* microstep: the parallel states on its entry chain
ParallelsOnEntryChain(t) ==
  {p \in mAllStates :
     /\ mIsParallel(p)
     /\ p # mTarget(t)
     /\ isDescendant(mTarget(t), p)
     /\ p \notin ms.before}

\* C17: when a fired transition's target lies below an inactive parallel
\* state, every parallel state on the entry chain is entered first and all
\* its children have their on_entry invoked, in document order.  Stated for
\* the runs in which no callback called the machine or threw.
C17_ParallelChainEntered ==
  (ms.done /\ cbHistory = "quiet")
    => \A t \in Targeted(ms.filtered) :
         \A p \in ParallelsOnEntryChain(t) :
            /\ FirstEntry(p) > 0
            /\ \A c \in Range(mChildren(p)) : FirstEntry(c) > FirstEntry(p)
            /\ \A i, j \in 1..Len(mChildren(p)) :
                 i < j => FirstEntry(mChildren(p)[i]) < FirstEntry(mChildren(p)[j])

\* C18: pushEvent called from inside a user callback, whichever operation
\* runs the callback, only appends the event and returns: no frame is
\* started for it.  Stated for the first call a callback makes in a run in
\* which nothing was thrown.
C18_CallbackPushOnlyEnqueues ==
  [][(CbPushEvent /\ cbHistory = "quiet")
       => /\ stack' = stack
          /\ mInToplevelProcess' = mInToplevelProcess
          /\ ret' = Returned("pushEvent", FALSE)]_vars

\* the states a completed microstep made active.  A pushEvent call is a
\* sequence of microsteps, and outside them only enter() and leave() change
\* the configuration: a state inactive before the call and active after it
\* was made active by one of its microsteps.
Activated == {x \in mAllStates : x \notin ms.before /\ inState(x)}

\* a microstep has completed in which no callback called enter() or leave()
MicrostepDone == ms.done /\ ~ms.nested

\* C19 as stated: if X is inactive before pushEvent(e) and active after it,
\* a transition fired whose target is X itself or an ancestor of X.
C19_TargetIsSelfOrAncestor ==
  MicrostepDone
    => \A x \in Activated :
         \E t \in Targeted(ms.filtered) : isDescendant(x, mTarget(t))

\* C19 amended: if X is inactive before pushEvent(e) and active after it, a
\* transition fired whose target is X, an ancestor of X, a descendant of X,
\* or a state that lies with X under a common parallel state.
C19_TargetOnEntryBranch ==
  MicrostepDone
    => \A x \in Activated :
         \E t \in Targeted(ms.filtered) : OnEntryBranch(x, mTarget(t))

\* TransitionToParallelChild: S1 -> S2B has fired and made S2 active, an
\* ancestor of its target
C19_Witness ==
  /\ topo = 3
  /\ MicrostepDone
  /\ ms.filtered = <<1>>
  /\ "S2" \in Activated
  /\ "S2B" \in Activated

\* the states of pConfiguration and their ancestors declare no transition
\* for pEvent
Inert(pEvent, pConfiguration) ==
  \A s \in pConfiguration : \A a \in {s} \cup Ancestors(s) :
    equal_range(a, pEvent) = <<>>

\* C20: pushEvent of an event for which no active state or ancestor declares
\* a transition, and pushEvent of any event on a machine that was never
\* entered, selects nothing, invokes no callback and leaves the
\* configuration unchanged; processEvents pops the event, so that the queue
\* of a machine that was never entered is empty whenever the host has
\* control, and a later enter() finds nothing to fire.
C20_InertEventConsumed ==
  /\ (stack # <<>> /\ Top.op = "process" /\ ms.event # nullptr
        /\ (Inert(ms.event, ms.before) \/ ~hist.everEntered))
       => /\ ms.cand = <<>>
          /\ ms.log = <<>>
          /\ Configuration = ms.before
          /\ ~InCallback
          /\ ms.done => Top.pc = "select"
  /\ (Idle /\ ~hist.everEntered)
       => /\ mEvents = <<>>
          /\ Configuration = {}
          /\ ~mInToplevelProcess

\* TransitionToParallelChild: the machine is active in S1 and an event that
\* S1 and the root do not declare has been processed and popped
C20_Witness ==
  /\ topo = 3
  /\ hist.everEntered
  /\ ms.done
  /\ ms.before = {"root", "S1"}
  /\ Inert(ms.event, ms.before)
  /\ Configuration = ms.before
  /\ mEvents = <<>>

\* C21: the re-entrance flag is cleared whenever the outer event-processing
\* frame is left, also when a callback throws out of pushEvent: while no
\* processEvents frame is on the call stack mInToplevelProcess is false, so
\* that a later top-level pushEvent runs microsteps for the queued events.
C21_FlagClearedOutsideFrame ==
  ~Processing(stack) => ~mInToplevelProcess

(***************************************************************************)
(* Construction: the descriptor expression (Transition(...) builds a       *)
(* TransitionDef from its parameters) and the StateMachine constructor     *)
(* (allocation pass, then link pass with StateImpl::build).  Under         *)
(* SpecCtor topo holds the descriptor handed to the constructor, impl the  *)
(* StateImpl objects built so far, stack the constructor's frame and ret   *)
(* how construction ended; the runtime fields keep their initial values.   *)
(***************************************************************************)
\* bounds of the descriptors: declared states, and parameters of Transition()
MaxStates == 3
MaxParams == 3

\* the names of the first family of descriptors: "root" collides with the
\* implicit root
StateNames == {"A", "B", "root"}

\* the names of the second family, by position in the declaration order
PositionNames == <<"A", "B", "C", "D", "E">>

\* "Z" names no state; "" is the empty string
TargetNames == {"", "A", "B", "Z"}

EventValues == {"", "e", "f"}

Param(kind, value) == [kind |-> kind, value |-> value]

\* OnEvent(e), Target(t), Action(f), Condition(f)
ParamValues ==
  {Param("event", e) : e \in EventValues}
    \cup {Param("target", t) : t \in TargetNames}
    \cup {Param("action", ""), Param("condition", "")}

\* Transition(OnEvent("e"), Target(t))
WellFormed(t) == <<Param("event", "e"), Param("target", t)>>

StateDef(name, parent, init, par) ==
  [mName |-> name, parent |-> parent, mIsInitial |-> init, mIsParallel |-> par]

\* first family: up to MaxStates declared states of any names, each a child
\* of the root or of the first state (parent is the index of the parent's
\* StateDef, 0 for the root's), with any initial tags
NamedTrees ==
  UNION {{s \in [1..n -> [mName : StateNames, parent : {0, 1}, mIsInitial : BOOLEAN,
                          mIsParallel : {FALSE}]] :
            \A i \in 1..n : s[i].parent < i} : n \in 0..MaxStates}

\* second family: up to MaxStates declared states of distinct names, of any
\* shape, with any initial tags and the parallel tag given to StateDef p (0
\* the root, -1 nobody)
ShapedTrees(p) ==
  UNION {{[i \in 1..n |-> StateDef(PositionNames[i], f[i].parent, f[i].mIsInitial, p = i)] :
            f \in {g \in [1..n -> [parent : 0..(MaxStates - 1), mIsInitial : BOOLEAN]] :
                     \A i \in 1..n : g[i].parent < i}} : n \in 0..MaxStates}

Descriptor(rootParallel, states, source, params) ==
  [rootParallel |-> rootParallel, states |-> states, source |-> source, params |-> params]

\* the first family, with no transition or one to the unknown "Z" in the root
NamingInputs ==
  {Descriptor(FALSE, t, 0, ps) : t \in NamedTrees, ps \in {<<>>, WellFormed("Z")}}

\* the second family, with no transition or one well-formed transition
\* declared in the root or in the first state
TopologyInputs ==
  {d \in UNION {{Descriptor(p = 0, t, s, ps) :
                   t \in ShapedTrees(p), s \in {0, 1},
                   ps \in {<<>>} \cup {WellFormed(x) : x \in TargetNames}} : p \in {-1, 0, 1}} :
     d.source <= Len(d.states) /\ (d.params = <<>> => d.source = 0)}

\* one tree, with a Transition of every parameter list declared in the root
TransitionInputs ==
  {Descriptor(FALSE, <<StateDef("A", 0, TRUE, FALSE)>>, 0, ps) :
     ps \in UNION {[1..n -> ParamValues] : n \in 1..MaxParams}}

CtorInputs == NamingInputs \cup TopologyInputs \cup TransitionInputs

\* StateDef lDef of the descriptor: 0 is lCurrentDefinition ("root")
DefName(lDef) == IF lDef = 0 THEN "root" ELSE topo.states[lDef].mName

DefIsInitial(lDef) == IF lDef = 0 THEN FALSE ELSE topo.states[lDef].mIsInitial

DefIsParallel(lDef) == IF lDef = 0 THEN topo.rootParallel ELSE topo.states[lDef].mIsParallel

\* StateDef::mChildren, in declaration order
DefChildren(lDef) ==
  SelectSeq([i \in 1..Len(topo.states) |-> i], LAMBDA c : topo.states[c].parent = lDef)

\* TransitionDef(): every field empty
EmptyDef == [mTarget |-> "", mEvent |-> "", mAction |-> FALSE, mCondition |-> FALSE]

NoThrow == [what |-> "none", arg |-> ""]

Throw(what, arg) == [what |-> what, arg |-> arg]

\* TransitionDef::addParameter, the four overloads
addParameter(pDef, pParam) ==
  CASE pParam.kind = "target" ->
         IF pDef.mTarget # "" THEN [throw |-> Throw("TargetAlreadySpecified", pParam.value), def |-> pDef]
         ELSE [throw |-> NoThrow, def |-> [pDef EXCEPT !.mTarget = pParam.value]]
    [] pParam.kind = "event" ->
         IF pDef.mEvent # "" THEN [throw |-> Throw("EventAlreadySpecified", ""), def |-> pDef]
         ELSE [throw |-> NoThrow, def |-> [pDef EXCEPT !.mEvent = pParam.value]]
    [] pParam.kind = "action" ->
         IF pDef.mAction THEN [throw |-> Throw("ActionAlreadySpecified", ""), def |-> pDef]
         ELSE [throw |-> NoThrow, def |-> [pDef EXCEPT !.mAction = TRUE]]
    [] pParam.kind = "condition" ->
         IF pDef.mCondition THEN [throw |-> Throw("ConditionAlreadySpecified", ""), def |-> pDef]
         ELSE [throw |-> NoThrow, def |-> [pDef EXCEPT !.mCondition = TRUE]]

\* the loop of build() over pDef.mChildren: mInitial is set by the first
\* tagged child, a second one throws
RECURSIVE InitialLoop(_, _, _)
InitialLoop(lChildren, pInitial, pName) ==
  IF lChildren = <<>> THEN [throw |-> NoThrow, mInitial |-> pInitial]
  ELSE IF DefIsInitial(Head(lChildren))
       THEN IF pInitial # nullptr
            THEN [throw |-> Throw("AlreadyHasInitial", pName), mInitial |-> pInitial]
            ELSE InitialLoop(Tail(lChildren), DefName(Head(lChildren)), pName)
       ELSE InitialLoop(Tail(lChildren), pInitial, pName)

\* mutant of InitialTest: a parallel state needs an initial child as well
InitialTest_ParallelToo(lDef, pInitial) ==
  DefChildren(lDef) # <<>> /\ pInitial = nullptr

\* build(): !mIsParallel && !mChildren.empty() && mInitial == nullptr
InitialTest(lDef, pInitial) ==
  ~DefIsParallel(lDef) /\ DefChildren(lDef) # <<>> /\ pInitial = nullptr

\* mutant of TargetFound: every name is found
TargetFound_Always(pTarget) == TRUE

\* build(): mRoot->mAllStates.find(lTransitionDef.mTarget) != end()
TargetFound(pTarget) == pTarget \in impl.mAllStates

\* the TransitionDefs of StateDef lDef: the descriptor declares at most one
DefTransitions(lDef, pDef) ==
  IF topo.params # <<>> /\ topo.source = lDef THEN <<pDef>> ELSE <<>>

\* the loop of build() over pDef.mTransitions
TransitionLoop(lDef, pDef) ==
  LET lDefs == DefTransitions(lDef, pDef)
  IN  IF lDefs = <<>> THEN [throw |-> NoThrow, mTransitions |-> <<>>]
      ELSE LET lTransitionDef == lDefs[1]
           IN  IF lTransitionDef.mTarget # "" /\ ~TargetFound(lTransitionDef.mTarget)
               THEN [throw |-> Throw("NoSuchState", lTransitionDef.mTarget), mTransitions |-> <<>>]
               ELSE [throw |-> NoThrow,
                     mTransitions |->
                       <<[source |-> DefName(lDef), mEvent |-> lTransitionDef.mEvent,
                          mTarget |-> IF lTransitionDef.mTarget # ""
                                      THEN lTransitionDef.mTarget ELSE nullptr,
                          mCondition |-> lTransitionDef.mCondition]>>]

\* StateImpl::build: what it throws, or the fields of the StateImpl
build(lDef, pParent, pDef) ==
  LET lInitial == InitialLoop(DefChildren(lDef), nullptr, DefName(lDef))
      lTransitions == TransitionLoop(lDef, pDef)
  IN  IF lInitial.throw # NoThrow THEN [throw |-> lInitial.throw, impl |-> impl]
      ELSE IF InitialTest(lDef, lInitial.mInitial)
      THEN [throw |-> Throw("NoInitialState", DefName(lDef)), impl |-> impl]
      ELSE IF lTransitions.throw # NoThrow THEN [throw |-> lTransitions.throw, impl |-> impl]
      ELSE [throw |-> NoThrow,
            impl |->
              [mAllStates   |-> impl.mAllStates,
               mParent      |-> (DefName(lDef) :> pParent) @@ impl.mParent,
               mIsParallel  |-> (DefName(lDef) :> DefIsParallel(lDef)) @@ impl.mIsParallel,
               mChildren    |-> (DefName(lDef) :>
                                   [i \in 1..Len(DefChildren(lDef)) |->
                                      DefName(DefChildren(lDef)[i])]) @@ impl.mChildren,
               mInitial     |-> (DefName(lDef) :> lInitial.mInitial) @@ impl.mInitial,
               mTransitions |-> impl.mTransitions \o lTransitions.mTransitions]]

\* mutant of Inserted: the insertion always succeeds, as operator[] would
Inserted_Always(pName) == TRUE

\* lRes.second of mAllStates.insert(make_pair(lDef->mName, ...))
Inserted(pName) == pName \notin impl.mAllStates

Thrown(thrown) == [op |-> "ctor", how |-> "throw", what |-> thrown.what, arg |-> thrown.arg]

Constructed == [op |-> "ctor", how |-> "normal", what |-> "none", arg |-> ""]

\* the constructor's frame: the parameters of Transition() still to add and
\* the TransitionDef under construction, then lWorkingQueue / lBuildQueue
CtorFrame(pc, params, def, queue) ==
  [op |-> "ctor", pc |-> pc, params |-> params, def |-> def, queue |-> queue]

runtimeVars ==
  <<mIsActive, mInToplevelProcess, mEvents, mActive, condValue, cbOps, ms, cbHistory, hist>>

CtorInit ==
  /\ topo \in CtorInputs
  /\ impl = [mAllStates |-> {}, mParent |-> <<>>, mIsParallel |-> <<>>,
             mChildren |-> <<>>, mInitial |-> <<>>, mTransitions |-> <<>>]
  /\ stack = <<CtorFrame(IF topo.params = <<>> THEN "allocate" ELSE "describe",
                         topo.params, EmptyDef, <<0>>)>>
  /\ ret = NoRet
  /\ mIsActive = FALSE
  /\ mInToplevelProcess = FALSE
  /\ mEvents = <<>>
  /\ mActive = <<>>
  /\ condValue = TRUE
  /\ cbOps = 0
  /\ ms = NoMicrostep
  /\ cbHistory = "quiet"
  /\ hist = [entered |-> <<>>, exited |-> <<>>, clean |-> TRUE, everEntered |-> FALSE,
             last |-> <<>>]

InCtor(pc) == stack # <<>> /\ Top.op = "ctor" /\ Top.pc = pc

\* TransitionDef::addParameters: the next parameter of Transition(...)
AddParameter ==
  /\ InCtor("describe")
  /\ LET lResult == addParameter(Top.def, Head(Top.params))
     IN  IF lResult.throw # NoThrow
         THEN /\ stack' = <<>>
              /\ ret' = Thrown(lResult.throw)
         ELSE /\ stack' = <<[Top EXCEPT !.def = lResult.def,
                                        !.params = Tail(@),
                                        !.pc = IF Tail(Top.params) = <<>>
                                               THEN "allocate" ELSE "describe"]>>
              /\ ret' = NoRet
  /\ UNCHANGED <<topo, impl>>
  /\ UNCHANGED runtimeVars

\* the first loop of the constructor: one StateDef of lWorkingQueue
AllocateStep ==
  /\ InCtor("allocate")
  /\ Top.queue # <<>>
  /\ LET lDef == Head(Top.queue)
     IN  IF ~Inserted(DefName(lDef))
         THEN /\ stack' = <<>>
              /\ ret' = Thrown(Throw("DuplicateStateIdentifier", DefName(lDef)))
              /\ impl' = impl
         ELSE /\ impl' = [impl EXCEPT !.mAllStates = @ \cup {DefName(lDef)}]
              /\ stack' = <<[Top EXCEPT !.queue = Tail(@) \o DefChildren(lDef)]>>
              /\ ret' = NoRet
  /\ UNCHANGED topo
  /\ UNCHANGED runtimeVars

\* lWorkingQueue is empty: lBuildQueue.push_back(make_pair(nullptr, &lCurrentDefinition))
AllocateDone ==
  /\ InCtor("allocate")
  /\ Top.queue = <<>>
  /\ stack' = <<[Top EXCEPT !.pc = "link", !.queue = << <<nullptr, 0>> >>]>>
  /\ ret' = NoRet
  /\ UNCHANGED <<topo, impl>>
  /\ UNCHANGED runtimeVars

\* the second loop of the constructor: build() of one StateDef of lBuildQueue
LinkStep ==
  /\ InCtor("link")
  /\ Top.queue # <<>>
  /\ LET lParent == Head(Top.queue)[1]
         lDef == Head(Top.queue)[2]
         lResult == build(lDef, lParent, Top.def)
         lKids == DefChildren(lDef)
     IN  IF lResult.throw # NoThrow
         THEN /\ stack' = <<>>
              /\ ret' = Thrown(lResult.throw)
              /\ impl' = impl
         ELSE /\ impl' = lResult.impl
              /\ stack' = <<[Top EXCEPT !.queue =
                               Tail(@) \o [i \in 1..Len(lKids) |-> <<DefName(lDef), lKids[i]>>]]>>
              /\ ret' = NoRet
  /\ UNCHANGED topo
  /\ UNCHANGED runtimeVars

\* lBuildQueue is empty: the constructor returns
CtorReturn ==
  /\ InCtor("link")
  /\ Top.queue = <<>>
  /\ stack' = <<>>
  /\ ret' = Constructed
  /\ UNCHANGED <<topo, impl>>
  /\ UNCHANGED runtimeVars

CtorNext ==
  AddParameter \/ AllocateStep \/ AllocateDone \/ LinkStep \/ CtorReturn

SpecCtor == CtorInit /\ [][CtorNext]_vars

(***************************************************************************)
(* Properties of construction.                                             *)
(***************************************************************************)
\* the StateDefs of the descriptor, the root's included
Defs == 0..Len(topo.states)

\* the constructor has returned or thrown
CtorEnded == stack = <<>> /\ ret.op = "ctor"

\* the exceptions of Transition(...), thrown before the constructor is called
DescriptorErrors ==
  {"TargetAlreadySpecified", "EventAlreadySpecified",
   "ActionAlreadySpecified", "ConditionAlreadySpecified"}

\* the constructor was called and has ended
Ended == CtorEnded /\ ret.what \notin DescriptorErrors

Failed(what) == Ended /\ ret.how = "throw" /\ ret.what = what

Succeeded == Ended /\ ret.how = "normal"

\* two StateDefs of the descriptor carry the same name
HasDuplicate == \E i, j \in Defs : i # j /\ DefName(i) = DefName(j)

TaggedChildren(lDef) == {c \in Range(DefChildren(lDef)) : DefIsInitial(c)}

\* a non-parallel StateDef with children and no child tagged initial
LacksInitial(lDef) ==
  ~DefIsParallel(lDef) /\ DefChildren(lDef) # <<>> /\ TaggedChildren(lDef) = {}

\* the target names the descriptor's Transition declares
DeclaredTargets ==
  {topo.params[i].value : i \in {j \in 1..Len(topo.params) : topo.params[j].kind = "target"}}

DeclaredNames == {DefName(i) : i \in Defs}

\* C22: a descriptor with two states of the same name, the implicit "root"
\* included, fails with DuplicateStateIdentifier naming a duplicated name,
\* whatever other violation (no initial child, two initial children, unknown
\* target) it contains; a descriptor without duplicates never fails so.
C22_DuplicateReportedFirst ==
  /\ (Ended /\ HasDuplicate)
       => /\ Failed("DuplicateStateIdentifier")
          /\ \E i, j \in Defs : i # j /\ DefName(i) = ret.arg /\ DefName(j) = ret.arg
  /\ Failed("DuplicateStateIdentifier") => HasDuplicate

\* two untagged states named "A" under the non-parallel root, and a
\* transition to the unknown "Z": DuplicateStateIdentifier("A") is thrown
C22_Witness ==
  /\ Failed("DuplicateStateIdentifier")
  /\ ret.arg = "A"
  /\ Len(topo.states) = 2
  /\ \A i \in 1..2 : topo.states[i].mName = "A" /\ topo.states[i].parent = 0
  /\ LacksInitial(0)
  /\ "Z" \in DeclaredTargets

\* a StateDef with two or more children tagged initial
TwoInitials(lDef) == Cardinality(TaggedChildren(lDef)) >= 2

\* the StateDefs named pName
Named(pName) == {lDef \in Defs : DefName(lDef) = pName}

\* a declared target that is not the empty string and names no state
UnknownTargets == {t \in DeclaredTargets : t # "" /\ t \notin DeclaredNames}

\* C23: construction succeeds only if every non-parallel state with children
\* has exactly one child tagged initial.  NoInitialState names a non-parallel
\* state with children and no tagged child, AlreadyHasInitial a state with
\* two or more tagged children, the root ("root") or a nested state; and a
\* descriptor whose only violation is of one of these kinds fails with the
\* exception of that kind.
C23_ExactlyOneInitial ==
  /\ Succeeded
       => \A lDef \in Defs :
            (~DefIsParallel(lDef) /\ DefChildren(lDef) # <<>>)
              => Cardinality(TaggedChildren(lDef)) = 1
  /\ Failed("NoInitialState") => \E lDef \in Named(ret.arg) : LacksInitial(lDef)
  /\ Failed("AlreadyHasInitial") => \E lDef \in Named(ret.arg) : TwoInitials(lDef)
  /\ (Ended /\ ~HasDuplicate /\ UnknownTargets = {})
       => /\ ((\E lDef \in Defs : LacksInitial(lDef)) /\ ~(\E lDef \in Defs : TwoInitials(lDef)))
               => Failed("NoInitialState")
          /\ ((\E lDef \in Defs : TwoInitials(lDef)) /\ ~(\E lDef \in Defs : LacksInitial(lDef)))
               => Failed("AlreadyHasInitial")

\* root > A (initial, not parallel) > {B, C}, both tagged initial:
\* AlreadyHasInitial("A") is thrown for the nested state
C23_Witness ==
  /\ Failed("AlreadyHasInitial")
  /\ ret.arg = "A"
  /\ Len(topo.states) = 3
  /\ TaggedChildren(0) = {1}
  /\ TaggedChildren(1) = {2, 3}
  /\ ~DefIsParallel(1)

\* the transitions the constructor built with a target
Resolved == {i \in 1..Len(impl.mTransitions) : impl.mTransitions[i].mTarget # nullptr}

\* C24: construction fails whenever the transition declares a target name
\* that is not the name of a state, with NoSuchState when the descriptor has
\* no other violation; and in a constructed machine a declared target is the
\* mTarget of the transition and the name of a built state, also when the
\* state is declared after the transition.
C24_UnknownTargetFails ==
  /\ (Ended /\ \E t \in DeclaredTargets : t \notin DeclaredNames)
       => /\ ~Succeeded
          /\ (~HasDuplicate /\ \A lDef \in Defs : ~LacksInitial(lDef) /\ ~TwoInitials(lDef))
               => Failed("NoSuchState")
  /\ Succeeded
       => /\ \A i \in Resolved : impl.mTransitions[i].mTarget \in DOMAIN impl.mParent
          /\ \A t \in DeclaredTargets : \E i \in Resolved : impl.mTransitions[i].mTarget = t

\* how many parameters of a kind the descriptor's Transition(...) was given
Given(kind) == Cardinality({i \in 1..Len(topo.params) : topo.params[i].kind = kind})

\* no parameter kind other than pKind was given twice
OnlyTwice(pKind) ==
  \A k \in {"event", "target", "action", "condition"} \ {pKind} : Given(k) <= 1

\* C25: a Transition given two event names fails with EventAlreadySpecified
\* and one given two targets fails with TargetAlreadySpecified, whatever the
\* values, the empty string as the first one included.
C25_SecondValueRejected ==
  CtorEnded
    => /\ (Given("event") >= 2 /\ OnlyTwice("event"))
            => (ret.how = "throw" /\ ret.what = "EventAlreadySpecified")
       /\ (Given("target") >= 2 /\ OnlyTwice("target"))
            => (ret.how = "throw" /\ ret.what = "TargetAlreadySpecified")

\* the states below A that are reported active
ActiveBelow(A) == {s \in mAllStates : s # A /\ isDescendant(s, A) /\ inState(s)}

LeastCommonAncestor(t) == findLeastCommonAncestor(mSource(t), mTarget(t))

LogPositions(kind, s) == {i \in 1..Len(ms.log) : ms.log[i] = <<kind, s>>}

\* C27: inside a microstep a state's on_exit is invoked only after the
\* on_exit of every one of its descendants that was active when the
\* microstep began, and a state's on_entry is never invoked before the
\* on_entry of its parent when the parent is entered in the same microstep.
\* Stated for the microsteps in which no callback called enter() or leave().
C27_NestingOrder ==
  ~ms.nested
    => \A s \in mAllStates :
         /\ \A i \in LogPositions("exit", s) :
              \A d \in ms.before :
                (d # s /\ isDescendant(d, s))
                  => \E j \in LogPositions("exit", d) : j < i
         /\ \A i \in LogPositions("entry", s) :
              LogPositions("entry", mParent(s)) # {}
                => \E j \in LogPositions("entry", mParent(s)) : j < i

\* CompoundToCompound: the transition from S1A to S2 has exited S1A, then
\* S1, and entered S2, then S2A
C27_Witness ==
  /\ topo = 8
  /\ MicrostepDone
  /\ LogOf("exit") = <<"S1A", "S1">>
  /\ LogOf("entry") = <<"S2", "S2A">>

\* the states of pStates in reverse document order: the order in which
\* leave() exits them
ReverseDocumentOrder(pStates) ==
  Reverse(SelectSeq(DepthFirst(<<"root">>), LAMBDA s : s \in pStates))

\* C28: the states exited by a transition are exited in exact reverse
\* document order (the reverse of the depth-first pre-order over the exited
\* states), the order in which leave() would exit them.  Stated for the
\* candidates of a microstep, when processTransitions has just computed
\* their exit lists, in the runs in which no callback called the machine.
C28_ExitReverseDocumentOrder ==
  (JustSelected /\ cbHistory = "quiet")
    => \A t \in Targeted(ms.cand) :
         listExitStates(t) = ReverseDocumentOrder(ExitSet(t))

NoDuplicates(seq) == \A i, j \in 1..Len(seq) : i # j => seq[i] # seq[j]

\* C29: the states entered in a microstep form a set: in one microstep the
\* on_entry callbacks of a state are invoked at most once, whatever the kind
\* of the transition's target.  Stated for the microsteps of the runs in
\* which no callback called the machine.
C29_EnteredOnce ==
  cbHistory = "quiet" => NoDuplicates(LogOf("entry"))

\* C30: the list the conflict resolver returns is conflict-free: no two of
\* its transitions with targets have intersecting exit sets, and in one
\* microstep the on_exit callbacks of a state are invoked at most once.  The
\* first part is stated when processTransitions has just filtered, the
\* second for the microsteps in which no callback called enter() or leave().
C30_ConflictFree ==
  /\ JustSelected
       => \A i, j \in 1..Len(ms.filtered) :
            (i # j /\ mTarget(ms.filtered[i]) # nullptr /\ mTarget(ms.filtered[j]) # nullptr)
              => ExitSet(ms.filtered[i]) \cap ExitSet(ms.filtered[j]) = {}
  /\ ~ms.nested => NoDuplicates(LogOf("exit"))

\* ParallelConflictingTransition: SA -> S2 and SB -> S3 were both candidates
\* with the exit set {SA, SB, S1}; SA's alone was accepted and every state
\* was exited once
C30_Witness ==
  /\ topo = 2
  /\ MicrostepDone
  /\ ms.cand = <<1, 2>>
  /\ ms.filtered = <<1>>
  /\ LogOf("exit") = <<"SB", "SA", "S1">>

(***************************************************************************)
(* What one active atomic state contributes to the candidates.             *)
(***************************************************************************)
Count(seq, x) == Cardinality({i \in 1..Len(seq) : seq[i] = x})

\* the active atomic states whose walk towards the root stops at the state s
Served(s) ==
  {a \in mAllStates : isAtomic(a) /\ inState(a) /\ s \in Innermost(a, ms.event)}

\* C31 as stated: for one event the selector contributes at most one
\* transition per active atomic state: of the state at which the walk of an
\* atomic state stops, no more transitions are candidates than atomic states
\* stopped there.
C31_OnePerAtomic ==
  JustSelected
    => \A s \in mAllStates :
         Cardinality({i \in 1..Len(ms.cand) : mSource(ms.cand[i]) = s})
           <= Cardinality(Served(s))

\* C31 amended: for one event every active atomic state contributes every
\* transition for the event, declared on the innermost state reached while
\* walking up that has an enabled one, whose guard holds: such a transition
\* is a candidate once for each active atomic state whose walk stops at its
\* source, and nothing else is a candidate.
C31_EveryEnabledOfInnermost ==
  JustSelected
    => \A t \in 1..Len(impl.mTransitions) :
         Count(ms.cand, t) =
           (IF t \in Enabled(mSource(t), ms.event)
            THEN Cardinality(Served(mSource(t))) ELSE 0)

\* TargetlessTransitions: S1 declares two transitions for "event", both are
\* candidates and the actions of both have run
C31_Witness ==
  /\ topo = 6
  /\ MicrostepDone
  /\ ms.event = "event"
  /\ Cardinality(Enabled("S1", "event")) = 2
  /\ Count(ms.cand, 1) = 1 /\ Count(ms.cand, 2) = 1
  /\ Count(LogOf("action"), 1) = 1 /\ Count(LogOf("action"), 2) = 1

(***************************************************************************)
(* Which of two conflicting transitions the resolver keeps.                *)
(***************************************************************************)
ProperDescendant(pCheck, pAgainst) ==
  pCheck # pAgainst /\ isDescendant(pCheck, pAgainst)

\* the microstep has two candidates, U then T, both with a target, whose
\* exit sets have a state in common
TwoConflicting ==
  /\ JustSelected
  /\ Len(ms.cand) = 2
  /\ Targeted(ms.cand) = Range(ms.cand)
  /\ ExitSet(ms.cand[1]) \cap ExitSet(ms.cand[2]) # {}

\* C32: when a candidate T conflicts with an already accepted transition U,
\* T replaces U if and only if T's target is a proper descendant of U's
\* target; in every other case, also when T and U have the same target, U
\* (the first in document order) is kept and T is discarded.  Stated for
\* the microsteps with two candidates, where U is the first and T the second,
\* of the runs in which no callback called the machine.
C32_FirstKeptUnlessMoreSpecific ==
  (TwoConflicting /\ cbHistory = "quiet")
    => ms.filtered =
         (IF ProperDescendant(mTarget(ms.cand[2]), mTarget(ms.cand[1]))
          THEN <<ms.cand[2]>> ELSE <<ms.cand[1]>>)

(***************************************************************************)
(* Guards.                                                                 *)
(***************************************************************************)
\* the transition t carries a Condition, and the Condition returns false
GuardFalse(t) == impl.mTransitions[t].mCondition /\ ~condValue

\* the transitions the state s declares for the event of the microstep
Declared(s) == Range(equal_range(s, ms.event))

\* every transition for the event declared on the chain from the atomic
\* state a up to, and not including, the state s has a false guard
BlockedBelow(a, s) ==
  \A s2 \in mAllStates :
    (s2 # s /\ isDescendant(a, s2) /\ isDescendant(s2, s))
      => \A t \in Declared(s2) : GuardFalse(t)

\* C33: a transition whose guard returns false at selection time never
\* fires in that microstep, and a false guard does not stop the upward walk:
\* if every transition for the event on a state has a false guard, the
\* enabled transitions of the nearest ancestor that has one are selected
\* instead; a transition without a guard is always enabled.  (The host
\* changes what the guards return only between its calls.)
C33_FalseGuardSkipped ==
  /\ \A t \in Range(ms.cand) \cup Range(LogOf("action")) : ~GuardFalse(t)
  /\ JustSelected
       => \A a \in {x \in mAllStates : isAtomic(x) /\ inState(x)} :
            \A s \in mAllStates :
              (isDescendant(a, s) /\ BlockedBelow(a, s))
                => \A t \in Declared(s) : ~GuardFalse(t) => t \in Range(ms.cand)

\* CheckTransitionOrder: the guard of S1A's transition was false, the walk
\* went on to S1 and S1's unguarded transition fired
C33_Witness ==
  /\ topo = 1
  /\ ~condValue
  /\ MicrostepDone
  /\ "S1A" \in ms.before
  /\ Declared("S1A") = {2} /\ GuardFalse(2)
  /\ ms.cand = <<1>>
  /\ LogOf("action") = <<1>>
  /\ inState("S2")

(***************************************************************************)
(* Exceptions thrown by the callbacks of a microstep.                      *)
(***************************************************************************)
\* the step in which a callback of the microstep's phase pc throws
ThrowsIn(pc) ==
  /\ InCallback
  /\ Top.op = "process" /\ Top.pc = pc
  /\ cbHistory = "quiet"
  /\ stack' = <<>>
  /\ cbHistory' = "threw"

\* C34: when a user callback throws during a phase of a microstep (exit,
\* action or entry), the configuration observed afterwards equals the
\* configuration at the end of the last phase that completed: a partially
\* executed exit phase or entry phase is never visible through inState.
\* Stated for the first callback of a run that does anything but return.
C34_NoPartialPhase ==
  [][\A pc \in {"exit", "action", "entry"} :
       ThrowsIn(pc) => Configuration' = ms.atPhase]_vars

\* C35: build-time validation enforces that parallel states have no initial
\* child: every successfully constructed topology contains no parallel state
\* with a child tagged initial, and AlreadyHasInitial is raised only for
\* compound (non-parallel) states.
C35_ParallelHasNoInitial ==
  /\ Succeeded
       => \A lDef \in Defs : DefIsParallel(lDef) => TaggedChildren(lDef) = {}
  /\ Failed("AlreadyHasInitial")
       => \E lDef \in Named(ret.arg) : ~DefIsParallel(lDef) /\ TwoInitials(lDef)

\* C36: in one microstep the action of any given transition is invoked at
\* most once, also when the transition is declared on a state (a parallel
\* state or the root) that is a common ancestor of several active atomic
\* states none of which handles the event lower down.  Stated for the runs
\* in which no callback called the machine.
C36_ActionOnce ==
  cbHistory = "quiet" => NoDuplicates(LogOf("action"))

(***************************************************************************)
(* The lifecycle callbacks of one state over a whole run.                  *)
(***************************************************************************)
\* the step in which StateImpl::enter (kind on_entry) or StateImpl::leave
\* (kind on_exit) of the state s starts to invoke the state's callbacks
CallsBack(kind, s) ==
  /\ stack # <<>> /\ Top.cb = "none"
  /\ Top.states # <<>> /\ Head(Top.states) = s
  /\ Len(stack') = Len(stack)
  /\ stack'[Len(stack)].cb = kind

\* C37: over any sequence of enter(), leave() and top-level pushEvent()
\* calls, the on_entry and on_exit invocations of each individual state
\* strictly alternate, starting with on_entry: on_entry is never invoked for
\* a state that was entered and not exited since, and on_exit is never
\* invoked for a state that was not entered since its last exit.
C37_EntryExitAlternate ==
  [][cbHistory = "quiet"
       => \A s \in mAllStates :
            /\ CallsBack("on_entry", s) => hist.last[s] # "on_entry"
            /\ CallsBack("on_exit", s) => hist.last[s] = "on_entry"]_vars

\* C38: callbacks and configuration agree: whenever no operation is in
\* progress, a state is active (inState true) if and only if its most recent
\* lifecycle callback invocation was on_entry; no state becomes active
\* without its on_entry having run and no state whose on_exit ran last
\* remains active.  Stated for the runs in which no callback called the
\* machine or threw.
C38_ActiveIffEnteredLast ==
  (Idle /\ cbHistory = "quiet")
    => \A s \in mAllStates : inState(s) <=> hist.last[s] = "on_entry"

(***************************************************************************)
(* Transitions with a target leave their source.                           *)
(***************************************************************************)
\* the exit phase of the microstep is over
ExitsDone ==
  /\ ms.event # nullptr
  /\ ms.done \/ (Running("process") /\ Top.pc \in {"action", "entry"})

\* C39: transitions with a target are external: when such a transition
\* fires from a non-root source state that is active, the source state
\* itself is always exited (its on_exit runs), also when the target is the
\* source itself or a descendant of the source, because the transition
\* domain is always a proper ancestor of the source.  Stated for the runs in
\* which no callback called enter() or leave() or threw.
C39_SourceExited ==
  cbHistory \in {"quiet", "pushed"}
    => /\ JustSelected
            => \A t \in Targeted(ms.cand) :
                 mSource(t) # "root"
                   => ProperDescendant(mSource(t), LeastCommonAncestor(t))
       /\ ExitsDone
            => \A t \in Targeted(ms.filtered) :
                 (mSource(t) # "root" /\ mSource(t) \in ms.before)
                   => mSource(t) \in Range(LogOf("exit"))

(***************************************************************************)
(* The order of entry by a transition and by enter().                      *)
(***************************************************************************)
\* the sequence of states is in document order, the order in which enter()
\* enters the states of a subtree (depth first, children in declaration
\* order)
InDocumentOrder(seq) ==
  \A i, j \in 1..Len(seq) : i < j => DocPos(seq[i]) <= DocPos(seq[j])

\* C40: entering a target through a transition invokes on_entry on the
\* entered states in the same order (depth-first pre-order, document order)
\* that enter() uses for the same subtree: for a target that is, or lies
\* below, a parallel state whose children have children, each child's
\* completion is entered before the next sibling is entered.  Stated for the
\* microsteps in which one transition with a target fired, of the runs in
\* which no callback called the machine.
C40_EntryOrderAsEnter ==
  (cbHistory = "quiet" /\ Cardinality(Targeted(ms.filtered)) = 1)
    => InDocumentOrder(LogOf("entry"))

====
